---- MODULE Spec2Model ----
(***************************************************************************)
(* State-machine model of drivers/cpuidle/cpuidle-powernv.c: the startup   *)
(* path (powernv_processor_idle_init, powernv_idle_probe,                  *)
(* powernv_add_idle_states, powernv_cpuidle_driver_init), the selector     *)
(* get_snooze_timeout, the three entry routines and the hotplug notifier.  *)
(***************************************************************************)
EXTENDS Integers, Sequences, FiniteSets, TLC

(***************************************************************************)
(* Program constants.                                                      *)
(***************************************************************************)
MAX_POWERNV_IDLE_STATES == 8
IDLE_USE_INST_NAP == 65536
IDLE_USE_INST_SLEEP == 131072
\* TICK_USEC for HZ = 100 (the timer tick in microseconds).
TICK_USEC == 10000
\* -ENODEV
ENODEV == 19
\* enum system_states: SYSTEM_BOOTING < SYSTEM_RUNNING.
SYSTEM_BOOTING == 0
SYSTEM_RUNNING == 1

\* The cores of the model.
Cores == { 0, 1 }

\* Bits of the wake-control register LPCR; a register value is the set of
\* its bits that are 1.
LpcrBits == { "MER", "PECE0", "PECE1", "PECE2", "ILE" }
LPCR_MER == { "MER" }
LPCR_PECE == { "PECE0", "PECE1", "PECE2" }
LPCR_PECE0 == { "PECE0" }

(***************************************************************************)
(* Bounds of the model.                                                    *)
(***************************************************************************)
\* Longest flags array drawn for the capability probe.
MaxWords == 4
\* Longest flags array drawn for the selector.
MaxSelWords == 2
\* Iterations of the polling loop of snooze_loop that are counted.
MaxSpins == 2

(***************************************************************************)
(* Helpers: 32-bit cells of the device tree and bit tests.                 *)
(***************************************************************************)
\* A device-tree cell is four bytes, most significant first.
be32_to_cpu(cell) == ((cell[1] * 256 + cell[2]) * 256 + cell[3]) * 256 + cell[4]

RECURSIVE BitAnd(_, _)
BitAnd(a, b) ==
    IF a = 0 \/ b = 0 THEN 0
    ELSE (a % 2) * (b % 2) + 2 * BitAnd(a \div 2, b \div 2)

\* Flag cells drawn as inputs: an unrecognized bit only, the nap bit, the
\* sleep bit (with an unrelated low bit), and both bits.
FlagCells == { <<0, 4, 0, 0>>, <<0, 1, 0, 0>>, <<0, 2, 0, 1>>, <<0, 3, 0, 0>> }
\* Latency cells drawn as inputs: 10000 ns and 20500 ns.
LatCells == { <<0, 0, 39, 16>>, <<0, 0, 80, 20>> }

SeqsOfLen(S, n) == [1..n -> S]

(***************************************************************************)
(* Idle state descriptors (struct cpuidle_state).                          *)
(***************************************************************************)
Desc(n, f, el, tr, e) ==
    [name |-> n, flags |-> f, exit_latency |-> el, target_residency |-> tr, enter |-> e]

\* A zero-initialized slot of the static table.
ZeroDesc == Desc("", {}, 0, 0, "NULL")

\* The static initializer of powernv_states[MAX_POWERNV_IDLE_STATES].
StaticStates ==
    [k \in 0..(MAX_POWERNV_IDLE_STATES - 1) |->
        CASE k = 0 -> Desc("snooze", {"TIME_VALID"}, 0, 0, "snooze_loop")
          [] k = 1 -> Desc("NAP", {"TIME_VALID"}, 10, 100, "nap_loop")
          [] k = 2 -> Desc("fastsleep", {"TIME_VALID"}, 10, 100, "fastsleep_loop")
          [] OTHER -> ZeroDesc]

VARIABLES
    \* --- environment read by the startup path
    power_mgt,              \* /ibm,opal/power-mgt: node and its two properties
    cpuidle_disable,        \* "IDLE_NO_OVERRIDE" or an override
    fw_opalv3,              \* firmware_has_feature(FW_FEATURE_OPALv3)
    tb_ticks_per_usec,      \* timebase ticks per microsecond
    register_ret,           \* what cpuidle_register() will return
    \* --- startup
    init_pc,                \* position in powernv_processor_idle_init
    retval,                 \* its return value once it has returned
    nr_idle_states,         \* local of powernv_add_idle_states
    dt_i,                   \* loop index i of powernv_add_idle_states
    lat_oob_read,           \* a latency cell beyond the property was read
    powernv_states,         \* the static table, slots 0..7
    spill,                  \* writes past slot 7, in order: the descriptor
                            \* and the object the write landed on
    cpuidle_state_table,    \* "NULL" or "powernv_states"
    max_idle_state,
    default_snooze_timeout,
    snooze_timeout_en,
    drv_states,             \* powernv_idle_driver.states[0..state_count-1]
    state_count,            \* powernv_idle_driver.state_count
    driver_registered,      \* cpuidle_get_driver() != NULL
    notifier_registered,    \* setup_hotplug_notifier is on the chain
    drv_cpumask,            \* powernv_idle_driver.cpumask
    \* --- enable flags and the selector
    cpu_present,            \* cpu_present_mask
    state_disabled,         \* drv->states[i].disabled
    usage_disable,          \* dev->states_usage[i].disable, per core
    timeout_call,           \* the last call of get_snooze_timeout and its result
    \* --- executor
    system_state,           \* the lifecycle phase
    cpu,                    \* per core: registers, thread flags, the entry routine running
    snooze_exit_time,
    \* --- hotplug
    cpuidle_devices,        \* cores with a per-cpu cpuidle device
    dev_enabled,            \* dev->enabled, per core
    cpuidle_lock,           \* holders of the section of cpuidle_pause_and_lock
    hp                      \* per hot cpu: the notifier call in progress

startup_vars ==
    << init_pc, retval, nr_idle_states, dt_i, lat_oob_read, powernv_states, spill,
       cpuidle_state_table, max_idle_state, default_snooze_timeout,
       snooze_timeout_en, drv_states, state_count, driver_registered,
       notifier_registered, drv_cpumask >>

env_vars ==
    << power_mgt, cpuidle_disable, fw_opalv3, tb_ticks_per_usec, register_ret,
       cpu_present >>

sel_vars == << state_disabled, usage_disable, timeout_call >>
exec_vars == << system_state, cpu, snooze_exit_time >>
hp_vars == << cpuidle_devices, dev_enabled, cpuidle_lock, hp >>
runtime_vars == << sel_vars, exec_vars, hp_vars >>

vars == << env_vars, startup_vars, runtime_vars >>

(***************************************************************************)
(* Capability inputs.                                                      *)
(***************************************************************************)
Cap(node, hf, hl, fl, la) ==
    [node |-> node, has_flags |-> hf, has_lat |-> hl, flags |-> fl, lat |-> la]

\* The node or one of its properties is missing.
DegenerateCaps ==
    { Cap(FALSE, FALSE, FALSE, <<>>, <<>>),
      Cap(TRUE, FALSE, TRUE, <<>>, << <<0, 0, 39, 16>> >>),
      Cap(TRUE, TRUE, FALSE, << <<0, 3, 0, 0>> >>, <<>>) }

\* Both properties present, with n flag cells and m latency cells.
CapsOfShape(fcells, n, m) ==
    { Cap(TRUE, TRUE, TRUE, f, l) :
        f \in SeqsOfLen(fcells, n), l \in SeqsOfLen(LatCells, m) }

\* Both properties present, with n flag cells and m latency cells of 10000 ns.
CapsOfLengths(fcells, n, m) ==
    { Cap(TRUE, TRUE, TRUE, f, [k \in 1..m |-> <<0, 0, 39, 16>>]) :
        f \in SeqsOfLen(fcells, n) }

\* The array lengths drawn: equal, or the latency property one cell shorter
\* or longer.
WellFormedShapes(maxw) == { << n, n >> : n \in 0..maxw }
MismatchedShapes(maxw) ==
    { q \in (0..maxw) \X (0..maxw) : q[1] = q[2] + 1 \/ q[2] = q[1] + 1 }

(***************************************************************************)
(* powernv_add_idle_states: one flag word of the loop.                     *)
(***************************************************************************)
TestNap(flags) == BitAnd(flags, IDLE_USE_INST_NAP) # 0
\* Faulty variant: the sleep test written as the else-branch of the nap test.
TestSleep_ElseIf(flags) ==
    BitAnd(flags, IDLE_USE_INST_NAP) = 0 /\ BitAnd(flags, IDLE_USE_INST_SLEEP) # 0
TestSleep(flags) == BitAnd(flags, IDLE_USE_INST_SLEEP) # 0

ExitLatencyOf(latency_ns) == latency_ns \div 1000
\* Faulty variant: the residency taken as ten times the exit latency.
TargetResidencyOf_TenTimesExit(latency_ns) == 10 * (latency_ns \div 1000)
TargetResidencyOf(latency_ns) == latency_ns \div 100

NapDesc(latency_ns) ==
    Desc("Nap", {"TIME_VALID"},
         ExitLatencyOf(latency_ns), TargetResidencyOf(latency_ns), "nap_loop")

SleepDesc(latency_ns) ==
    Desc("FastSleep", {"TIME_VALID", "TIMER_STOP"},
         ExitLatencyOf(latency_ns), TargetResidencyOf(latency_ns), "fastsleep_loop")

\* The descriptors one flag word appends, in order.
WordDescs(flags, latency_ns) ==
    (IF TestNap(flags) THEN << NapDesc(latency_ns) >> ELSE << >>) \o
    (IF TestSleep(flags) THEN << SleepDesc(latency_ns) >> ELSE << >>)

\* What lies behind powernv_states depends on the build: the notifier block
\* setup_hotplug_notifier, the driver structure powernv_idle_driver, or
\* memory nothing of this driver uses.
OverflowTargets == { "setup_hotplug_notifier", "powernv_idle_driver", "other" }

\* powernv_states[idx] = d: inside the array, or past its end, where the
\* write lands on the object onto.
RECURSIVE StoreDescs(_, _, _, _, _)
StoreDescs(table, over, idx, ds, onto) ==
    IF ds = << >> THEN << table, over >>
    ELSE IF idx < MAX_POWERNV_IDLE_STATES
         THEN StoreDescs([table EXCEPT ![idx] = Head(ds)], over, idx + 1,
                         Tail(ds), onto)
         ELSE StoreDescs(table, Append(over, [desc |-> Head(ds), onto |-> onto]),
                         idx + 1, Tail(ds), onto)

\* A write past the array has overwritten setup_hotplug_notifier, whose
\* notifier_call is no longer powernv_cpuidle_add_cpu_notifier.
NotifierClobbered ==
    \E k \in 1..Len(spill) : spill[k].onto = "setup_hotplug_notifier"
\* A write past the array has overwritten the head of powernv_idle_driver.
DriverClobbered ==
    \E k \in 1..Len(spill) : spill[k].onto = "powernv_idle_driver"

\* Cells a read past the end of the latency property can give: a cell like
\* those of the property, or a token of the device-tree blob that follows.
OobLatCells == LatCells \cup { <<0, 0, 0, 2>>, <<0, 0, 0, 3>> }

\* dt_idle_states = len_flags / sizeof(u32)
DtIdleStates == (4 * Len(power_mgt.flags)) \div 4

(***************************************************************************)
(* Startup: powernv_processor_idle_init and what it calls.                 *)
(***************************************************************************)
\* powernv_idle_probe up to the call of powernv_add_idle_states, and that
\* function up to its loop.
IdleProbe ==
    /\ init_pc = "probe"
    /\ IF cpuidle_disable # "IDLE_NO_OVERRIDE" \/ ~fw_opalv3
       THEN /\ init_pc' = "failed"
            /\ retval' = -ENODEV
            /\ UNCHANGED << cpuidle_state_table, dt_i >>
       ELSE /\ cpuidle_state_table' = "powernv_states"
            /\ retval' = retval
            /\ IF ~power_mgt.node \/ ~power_mgt.has_flags \/ ~power_mgt.has_lat
               THEN init_pc' = "probe_ret" /\ dt_i' = dt_i
               ELSE init_pc' = "add_loop" /\ dt_i' = 0
    /\ UNCHANGED << nr_idle_states, lat_oob_read, powernv_states, spill,
                    max_idle_state, default_snooze_timeout, snooze_timeout_en,
                    drv_states, state_count, driver_registered,
                    notifier_registered, drv_cpumask >>
    /\ UNCHANGED << env_vars, runtime_vars >>

\* One iteration of the loop over the flag words.
AddIdleStatesWord ==
    /\ init_pc = "add_loop"
    /\ dt_i < DtIdleStates
    /\ LET flags == be32_to_cpu(power_mgt.flags[dt_i + 1])
           inside == dt_i < Len(power_mgt.lat)
       IN \E cell \in (IF inside THEN { power_mgt.lat[dt_i + 1] } ELSE OobLatCells) :
            LET latency_ns == be32_to_cpu(cell)
                ds == WordDescs(flags, latency_ns)
                past == nr_idle_states + Len(ds) > MAX_POWERNV_IDLE_STATES
            IN \E onto \in (IF ~past THEN { "other" }
                            ELSE IF spill = << >> THEN OverflowTargets
                            ELSE { spill[1].onto }) :
                 LET st == StoreDescs(powernv_states, spill, nr_idle_states, ds, onto)
                 IN /\ powernv_states' = st[1]
                    /\ spill' = st[2]
                    /\ nr_idle_states' = nr_idle_states + Len(ds)
                    /\ lat_oob_read' = (lat_oob_read \/ ~inside)
    /\ dt_i' = dt_i + 1
    /\ UNCHANGED << init_pc, retval, cpuidle_state_table, max_idle_state,
                    default_snooze_timeout, snooze_timeout_en, drv_states,
                    state_count, driver_registered, notifier_registered, drv_cpumask >>
    /\ UNCHANGED << env_vars, runtime_vars >>

\* The loop ends and powernv_add_idle_states returns.
AddIdleStatesDone ==
    /\ init_pc = "add_loop"
    /\ dt_i >= DtIdleStates
    /\ init_pc' = "probe_ret"
    /\ UNCHANGED << retval, nr_idle_states, dt_i, lat_oob_read, powernv_states, spill,
                    cpuidle_state_table, max_idle_state, default_snooze_timeout,
                    snooze_timeout_en, drv_states, state_count, driver_registered,
                    notifier_registered, drv_cpumask >>
    /\ UNCHANGED << env_vars, runtime_vars >>

\* The rest of powernv_idle_probe.
IdleProbeReturn ==
    /\ init_pc = "probe_ret"
    /\ max_idle_state' = nr_idle_states
    /\ default_snooze_timeout' = TICK_USEC * tb_ticks_per_usec
    /\ snooze_timeout_en' = (snooze_timeout_en \/ nr_idle_states > 1)
    /\ init_pc' = "driver_init"
    /\ UNCHANGED << retval, nr_idle_states, dt_i, lat_oob_read, powernv_states, spill,
                    cpuidle_state_table, drv_states, state_count, driver_registered,
                    notifier_registered, drv_cpumask >>
    /\ UNCHANGED << env_vars, runtime_vars >>

\* Faulty variant: the copy loop runs over the whole static table.
DriverInitLimit_WholeTable == MAX_POWERNV_IDLE_STATES
\* The bound of the copy loop of powernv_cpuidle_driver_init.
DriverInitLimit == max_idle_state

\* What a read of cpuidle_state_table[k] past the array can give: the
\* descriptor written there, a zeroed slot, or bytes of another object, whose
\* enter is neither NULL nor one of the three routines; its disabled flag is
\* whatever byte lies there.  No entry routine stands for such a
\* descriptor: a governor that called it would jump to a wild address.
GarbageDesc == Desc("FastSleep", {}, 0, 0, "garbage")
OobOutcomes ==
    { [kind |-> k, disabled |-> d] :
        k \in { "stored", "zero", "garbage" }, d \in BOOLEAN }

\* cpuidle_state_table[k] with its disabled flag; oob is the outcome of the
\* reads past the array, which lie side by side in one object.
TableRead(k, oob) ==
    IF k < MAX_POWERNV_IDLE_STATES
    THEN [desc |-> powernv_states[k], disabled |-> FALSE]
    ELSE IF oob.kind = "stored" /\ k - MAX_POWERNV_IDLE_STATES < Len(spill)
         THEN [desc |-> spill[k - MAX_POWERNV_IDLE_STATES + 1].desc,
               disabled |-> oob.disabled]
         ELSE IF oob.kind = "garbage"
              THEN [desc |-> GarbageDesc, disabled |-> oob.disabled]
              ELSE [desc |-> ZeroDesc, disabled |-> FALSE]

RECURSIVE CopyStates(_, _, _)
CopyStates(k, acc, oob) ==
    IF k >= DriverInitLimit THEN acc
    ELSE IF TableRead(k, oob).desc.enter = "NULL"
         THEN CopyStates(k + 1, acc, oob)
         ELSE CopyStates(k + 1, Append(acc, TableRead(k, oob)), oob)

DriverInit ==
    /\ init_pc = "driver_init"
    /\ \E oob \in (IF DriverInitLimit > MAX_POWERNV_IDLE_STATES
                   THEN OobOutcomes
                   ELSE { [kind |-> "stored", disabled |-> FALSE] }) :
         LET copied == CopyStates(0, << >>, oob)
         IN /\ drv_states' = [k \in 1..Len(copied) |-> copied[k].desc]
            /\ state_count' = Len(copied)
            /\ state_disabled' = [k \in 1..Len(copied) |-> copied[k].disabled]
    /\ drv_cpumask' = cpu_present
    /\ init_pc' = "register"
    /\ UNCHANGED << retval, nr_idle_states, dt_i, lat_oob_read, powernv_states, spill,
                    cpuidle_state_table, max_idle_state, default_snooze_timeout,
                    snooze_timeout_en, driver_registered, notifier_registered >>
    /\ UNCHANGED << env_vars, usage_disable, timeout_call, exec_vars, hp_vars >>

\* Faulty variant: a failure of cpuidle_register is not returned.
InitReturnsEarly_Never(rv) == FALSE
\* if (retval) return retval; after cpuidle_register.
InitReturnsEarly(rv) == rv # 0

\* Values cpuidle_register returns: 0, or an error.
RegisterRets == { 0, -16, -ENODEV, 1 }

\* cpuidle_register has returned 0: the driver is registered and the
\* governor runs, whether or not the notifier is on the chain yet.
Registered == init_pc \in { "notifier", "done" }

\* retval = cpuidle_register(&powernv_idle_driver, NULL) and the test of
\* retval.  A driver structure overwritten by the probe makes the outcome
\* of the call any of its values.
RegisterDriver ==
    /\ init_pc = "register"
    /\ \E rv \in (IF DriverClobbered THEN RegisterRets ELSE { register_ret }) :
         /\ IF rv = 0
            THEN /\ driver_registered' = TRUE
                 /\ cpuidle_devices' = drv_cpumask
                 /\ dev_enabled' = [c \in Cores |-> c \in drv_cpumask]
                 /\ usage_disable' =
                        [c \in Cores |-> [k \in 1..state_count |-> FALSE]]
            ELSE UNCHANGED << driver_registered, cpuidle_devices, dev_enabled,
                              usage_disable >>
         /\ retval' = rv
         /\ init_pc' = IF InitReturnsEarly(rv) THEN "failed" ELSE "notifier"
    /\ UNCHANGED << nr_idle_states, dt_i, lat_oob_read, powernv_states, spill,
                    cpuidle_state_table, max_idle_state, default_snooze_timeout,
                    snooze_timeout_en, drv_states, state_count, drv_cpumask,
                    notifier_registered >>
    /\ UNCHANGED << env_vars, state_disabled, timeout_call, exec_vars, cpuidle_lock, hp >>

\* register_cpu_notifier(&setup_hotplug_notifier); return 0.
RegisterCpuNotifier ==
    /\ init_pc = "notifier"
    /\ notifier_registered' = TRUE
    /\ retval' = 0
    /\ init_pc' = "done"
    /\ UNCHANGED << nr_idle_states, dt_i, lat_oob_read, powernv_states, spill,
                    cpuidle_state_table, max_idle_state, default_snooze_timeout,
                    snooze_timeout_en, drv_states, state_count, driver_registered,
                    drv_cpumask >>
    /\ UNCHANGED << env_vars, runtime_vars >>

StartupNext ==
    \/ IdleProbe
    \/ AddIdleStatesWord
    \/ AddIdleStatesDone
    \/ IdleProbeReturn
    \/ DriverInit
    \/ RegisterDriver
    \/ RegisterCpuNotifier

\* No call of get_snooze_timeout has been made.
NoCall ==
    [dev |-> 0, index |-> -1, result |-> 0, pc |-> "idle", i |-> 0, dirty |-> FALSE]

\* A core outside any entry routine, its wake-control register holding v.
CpuAtRest(v) ==
    [pc |-> "none", index |-> 0, ret |-> 0, old_lpcr |-> {}, lpcr_entry |-> {},
     call_phase |-> SYSTEM_BOOTING, lpcr_writes |-> 0, halts |-> 0,
     lpcr |-> v, runlatch |-> TRUE, polling |-> FALSE, need_resched |-> FALSE,
     hmt |-> "medium", irqs_on |-> TRUE,
     tb |-> 0, deadline |-> 0, spins |-> 0, waker |-> "idle", observed |-> FALSE]

\* No notifier call in progress for a core; r is what the last one returned.
\* The field last records the last online or dead event whose call got past
\* the test of the device record and the driver.
HpIdle(r) == [pc |-> "idle", action |-> "none", ret |-> r, last |-> "none"]

\* The state before powernv_processor_idle_init runs.
StartupInit ==
    /\ init_pc = "probe"
    /\ retval = 0
    /\ nr_idle_states = 1
    /\ dt_i = 0
    /\ lat_oob_read = FALSE
    /\ powernv_states = StaticStates
    /\ spill = << >>
    /\ cpuidle_state_table = "NULL"
    /\ max_idle_state = 0
    /\ default_snooze_timeout = 0
    /\ snooze_timeout_en = FALSE
    /\ drv_states = << >>
    /\ state_count = 0
    /\ driver_registered = FALSE
    /\ notifier_registered = FALSE
    /\ drv_cpumask = {}
    /\ state_disabled = << >>
    /\ usage_disable = [c \in Cores |-> << >>]
    /\ timeout_call = NoCall
    /\ snooze_exit_time = 0
    /\ cpuidle_devices = {}
    /\ dev_enabled = [c \in Cores |-> FALSE]
    /\ cpuidle_lock = {}
    /\ hp = [c \in Cores |-> HpIdle("none")]

\* The probe is refused: an override, or no OPALv3 firmware.
RefusedEnv ==
    /\ power_mgt = Cap(FALSE, FALSE, FALSE, << >>, << >>)
    /\ cpuidle_disable \in { "IDLE_NO_OVERRIDE", "IDLE_POWERSAVE_OFF" }
    /\ fw_opalv3 \in BOOLEAN
    /\ cpuidle_disable # "IDLE_NO_OVERRIDE" \/ ~fw_opalv3
    /\ register_ret = 0

(***************************************************************************)
(* SpecProbe: startup over every capability input up to MaxWords words.    *)
(***************************************************************************)
InitProbe ==
    /\ StartupInit
    /\ tb_ticks_per_usec = 512
    /\ cpu_present = Cores
    /\ system_state = SYSTEM_BOOTING
    /\ cpu = [c \in Cores |-> CpuAtRest({})]
    /\ \/ RefusedEnv
       \/ /\ power_mgt \in DegenerateCaps
          /\ cpuidle_disable = "IDLE_NO_OVERRIDE"
          /\ fw_opalv3 = TRUE
          /\ register_ret \in RegisterRets
       \/ /\ \/ \E q \in WellFormedShapes(MaxWords) :
                   power_mgt \in CapsOfShape(FlagCells, q[1], q[2])
             \/ \E q \in MismatchedShapes(MaxWords) :
                   power_mgt \in CapsOfLengths(FlagCells, q[1], q[2])
          /\ cpuidle_disable = "IDLE_NO_OVERRIDE"
          /\ fw_opalv3 = TRUE
          /\ register_ret = 0

SpecProbe == InitProbe /\ [][StartupNext]_vars

(***************************************************************************)
(* Selector: get_snooze_timeout.                                           *)
(***************************************************************************)
\* Faulty variant: the scan starts at the state itself.
SnoozeScanStart_AtIndex(index) == index
\* The first position the loop of get_snooze_timeout looks at.
SnoozeScanStart(index) == index + 1

\* The loop of get_snooze_timeout from position i on.
RECURSIVE SnoozeScan(_, _)
SnoozeScan(dev, i) ==
    IF i >= state_count THEN default_snooze_timeout
    ELSE IF state_disabled[i + 1] \/ usage_disable[dev][i + 1]
         THEN SnoozeScan(dev, i + 1)
         ELSE drv_states[i + 1].target_residency * tb_ticks_per_usec

get_snooze_timeout(dev, index) ==
    IF ~snooze_timeout_en THEN default_snooze_timeout
    ELSE SnoozeScan(dev, SnoozeScanStart(index))

\* Faulty variant: the state found has its residency scaled in place
\* (target_residency *= tb_ticks_per_usec).
RECURSIVE ScanStates_ScalesInPlace(_, _)
ScanStates_ScalesInPlace(dev, i) ==
    IF i >= state_count THEN drv_states
    ELSE IF state_disabled[i + 1] \/ usage_disable[dev][i + 1]
         THEN ScanStates_ScalesInPlace(dev, i + 1)
         ELSE [drv_states EXCEPT ![i + 1].target_residency = @ * tb_ticks_per_usec]
\* drv->states after the loop of get_snooze_timeout from position i on: the
\* loop only reads the table.
ScanStates(dev, i) == drv_states

\* drv->states after a call of get_snooze_timeout.
StatesAfterTimeout(dev, index) ==
    IF ~snooze_timeout_en THEN drv_states
    ELSE ScanStates(dev, SnoozeScanStart(index))

\* The startup variables other than drv_states.
startup_rest ==
    << init_pc, retval, nr_idle_states, dt_i, lat_oob_read, powernv_states, spill,
       cpuidle_state_table, max_idle_state, default_snooze_timeout,
       snooze_timeout_en, state_count, driver_registered,
       notifier_registered, drv_cpumask >>

\* get_snooze_timeout is called for the device of core c: the test of
\* snooze_timeout_en, and the start of the loop.  The loop reads the disable
\* flags one at a time, with no lock against their writers, so each read is
\* a step of its own.
CallGetSnoozeTimeout(c, index) ==
    /\ Registered
    /\ c \in cpuidle_devices
    /\ index \in 0..(state_count - 1)
    /\ timeout_call.pc = "idle"
    /\ timeout_call' =
          IF ~snooze_timeout_en
          THEN [dev |-> c, index |-> index, result |-> default_snooze_timeout,
                pc |-> "idle", i |-> 0, dirty |-> FALSE]
          ELSE [dev |-> c, index |-> index, result |-> 0,
                pc |-> "disabled", i |-> SnoozeScanStart(index), dirty |-> FALSE]
    /\ UNCHANGED << env_vars, startup_vars, state_disabled, usage_disable,
                    exec_vars, hp_vars >>

\* i < drv->state_count and the read of s->disabled.
ScanReadDisabled ==
    /\ timeout_call.pc = "disabled"
    /\ timeout_call' =
          IF timeout_call.i >= state_count
          THEN [timeout_call EXCEPT !.result = default_snooze_timeout,
                                    !.pc = "idle", !.i = 0]
          ELSE IF state_disabled[timeout_call.i + 1]
               THEN [timeout_call EXCEPT !.i = @ + 1]
               ELSE [timeout_call EXCEPT !.pc = "disable"]
    /\ UNCHANGED << env_vars, startup_vars, state_disabled, usage_disable,
                    exec_vars, hp_vars >>

\* The read of su->disable, and the return of the state's residency in ticks.
ScanReadUsage ==
    /\ timeout_call.pc = "disable"
    /\ timeout_call' =
          IF usage_disable[timeout_call.dev][timeout_call.i + 1]
          THEN [timeout_call EXCEPT !.i = @ + 1, !.pc = "disabled"]
          ELSE [timeout_call EXCEPT
                  !.result = drv_states[timeout_call.i + 1].target_residency
                                * tb_ticks_per_usec,
                  !.pc = "idle", !.i = 0]
    /\ UNCHANGED << env_vars, startup_vars, state_disabled, usage_disable,
                    exec_vars, hp_vars >>

\* The call of get_snooze_timeout in progress, marked as having had a flag
\* written under it.
CallRaced ==
    IF timeout_call.pc = "idle" THEN timeout_call
    ELSE [timeout_call EXCEPT !.dirty = TRUE]

\* The driver-wide disable flag of state k is flipped.
ToggleStateDisabled(k) ==
    /\ Registered
    /\ k \in 1..state_count
    /\ state_disabled' = [state_disabled EXCEPT ![k] = ~@]
    /\ timeout_call' = CallRaced
    /\ UNCHANGED << env_vars, startup_vars, usage_disable, exec_vars, hp_vars >>

\* The per-device disable flag of state k of core c is flipped.
ToggleUsageDisable(c, k) ==
    /\ Registered
    /\ c \in cpuidle_devices
    /\ k \in 1..state_count
    /\ usage_disable' = [usage_disable EXCEPT ![c][k] = ~@]
    /\ timeout_call' = CallRaced
    /\ UNCHANGED << env_vars, startup_vars, state_disabled, exec_vars, hp_vars >>

\* The selector is exercised on the device of one core.
SelectorCores == { 0 }
\* Flag cells of the selector's inputs: the selector reads the residencies
\* and the disable flags only, so one kind of state is enough.
SelFlagCells == { <<0, 1, 0, 0>> }

SelectorNext ==
    \/ StartupNext
    \/ \E c \in SelectorCores, index \in 0..(MAX_POWERNV_IDLE_STATES - 1) :
          CallGetSnoozeTimeout(c, index)
    \/ ScanReadDisabled
    \/ ScanReadUsage
    \/ \E k \in 1..MAX_POWERNV_IDLE_STATES : ToggleStateDisabled(k)
    \/ \E c \in SelectorCores, k \in 1..MAX_POWERNV_IDLE_STATES :
          ToggleUsageDisable(c, k)

InitSelector ==
    /\ StartupInit
    /\ tb_ticks_per_usec \in { 1, 512 }
    /\ cpu_present = Cores
    /\ system_state = SYSTEM_BOOTING
    /\ cpu = [c \in Cores |-> CpuAtRest({})]
    /\ \/ RefusedEnv
       \/ /\ power_mgt \in DegenerateCaps
          /\ cpuidle_disable = "IDLE_NO_OVERRIDE"
          /\ fw_opalv3 = TRUE
          /\ register_ret \in RegisterRets
       \/ /\ \E q \in WellFormedShapes(MaxSelWords) :
                power_mgt \in CapsOfShape(SelFlagCells, q[1], q[2])
          /\ cpuidle_disable = "IDLE_NO_OVERRIDE"
          /\ fw_opalv3 = TRUE
          /\ register_ret = 0

SpecSelector == InitSelector /\ [][SelectorNext]_vars

(***************************************************************************)
(* Executor: snooze_loop, nap_loop, fastsleep_loop.  The governor calls    *)
(* drv->states[index].enter(dev, drv, index) on an enabled device while    *)
(* the section of cpuidle_pause_and_lock is free.                          *)
(***************************************************************************)
\* The governor may call an entry routine on core c with this index.
CanDispatch(c, index) ==
    /\ Registered
    /\ driver_registered
    /\ c \in cpuidle_devices
    /\ dev_enabled[c]
    /\ cpuidle_lock = {}
    /\ cpu[c].pc = "none"
    /\ index \in 0..(state_count - 1)

\* The fields every call sets on entry.
Called(c, index) ==
    [cpu[c] EXCEPT !.index = index, !.ret = 0, !.lpcr_entry = cpu[c].lpcr,
                   !.old_lpcr = {}, !.call_phase = system_state,
                   !.lpcr_writes = 0, !.halts = 0, !.irqs_on = FALSE]

\* Timebase values get_tb() is drawn from.
TbNowSet == { 0, 40000 }

\* snooze_loop up to its polling loop.  Its call of get_snooze_timeout is
\* taken whole: the specifications that run the entry routines have no
\* writer of the disable flags, so the reads of the loop cannot be raced.
SnoozeEnter(c, index) ==
    /\ CanDispatch(c, index)
    /\ drv_states[index + 1].enter = "snooze_loop"
    /\ \E now \in TbNowSet :
          /\ snooze_exit_time' = now + get_snooze_timeout(c, index)
          /\ cpu' = [cpu EXCEPT ![c] =
                [Called(c, index) EXCEPT !.pc = "snooze_poll", !.irqs_on = TRUE,
                                         !.polling = TRUE, !.runlatch = FALSE,
                                         !.tb = now,
                                         !.deadline = now + get_snooze_timeout(c, index)]]
    /\ drv_states' = StatesAfterTimeout(c, index)
    /\ UNCHANGED << env_vars, startup_rest, sel_vars, system_state, hp_vars >>

\* Faulty variant: the loop also ends when the deadline has passed.
SnoozeLoopEnds_OnDeadline(c) == cpu[c].need_resched \/ cpu[c].tb > cpu[c].deadline
\* The test of the polling loop: need_resched().
SnoozeLoopEnds(c) == cpu[c].need_resched

\* Faulty variant: the polling mark is left set on exit.
SnoozeExitPolling_Kept == TRUE
\* clear_thread_flag(TIF_POLLING_NRFLAG); smp_mb();
SnoozeExitPolling == FALSE

\* Whether the work the waker marked has been seen by the core, after a step
\* in which the core reads need_resched.
ObservedAfter(c) ==
    cpu[c].waker # "idle" /\ (cpu[c].observed \/ cpu[c].need_resched)

\* One iteration of the polling loop: no work is pending.
SnoozePoll(c) ==
    /\ cpu[c].pc = "snooze_poll"
    /\ ~SnoozeLoopEnds(c)
    /\ cpu' = [cpu EXCEPT ![c].hmt = "very_low",
                          ![c].spins = IF @ < MaxSpins THEN @ + 1 ELSE @]
    /\ UNCHANGED << env_vars, startup_vars, sel_vars, system_state,
                    snooze_exit_time, hp_vars >>

\* The test of the polling loop finds it ended.  The fields tb, deadline and
\* spins follow a core through its polling loop only, and are cleared here.
SnoozeSeeWork(c) ==
    /\ cpu[c].pc = "snooze_poll"
    /\ SnoozeLoopEnds(c)
    /\ cpu' = [cpu EXCEPT ![c].observed = ObservedAfter(c),
                          ![c].tb = 0, ![c].deadline = 0, ![c].spins = 0,
                          ![c].pc = "snooze_out"]
    /\ UNCHANGED << env_vars, startup_vars, sel_vars, system_state,
                    snooze_exit_time, hp_vars >>

\* After the loop: the thread priority and the runlatch are restored, the
\* polling mark is cleared, and snooze_loop returns.
SnoozeExit(c) ==
    /\ cpu[c].pc = "snooze_out"
    /\ cpu' = [cpu EXCEPT ![c].hmt = "medium", ![c].runlatch = TRUE,
                          ![c].polling = SnoozeExitPolling,
                          ![c].ret = cpu[c].index,
                          ![c].pc = "ret"]
    /\ UNCHANGED << env_vars, startup_vars, sel_vars, system_state,
                    snooze_exit_time, hp_vars >>

\* nap_loop up to the halt: the core is in power7_idle.
NapEnter(c, index) ==
    /\ CanDispatch(c, index)
    /\ drv_states[index + 1].enter = "nap_loop"
    /\ cpu' = [cpu EXCEPT ![c] =
          [Called(c, index) EXCEPT !.pc = "nap_halt", !.runlatch = FALSE]]
    /\ UNCHANGED << env_vars, startup_vars, sel_vars, system_state,
                    snooze_exit_time, hp_vars >>

\* Faulty variant: the runlatch is left off after the halt.
NapWakeRunlatch_Off == FALSE
\* ppc64_runlatch_on() after power7_idle().
NapWakeRunlatch == TRUE

\* An interrupt ends power7_idle; nap_loop returns.
NapWake(c) ==
    /\ cpu[c].pc = "nap_halt"
    /\ cpu' = [cpu EXCEPT ![c].runlatch = NapWakeRunlatch, ![c].ret = cpu[c].index,
                          ![c].pc = "ret"]
    /\ UNCHANGED << env_vars, startup_vars, sel_vars, system_state,
                    snooze_exit_time, hp_vars >>

\* Faulty variant: the guard of fastsleep_loop is dropped.
FastsleepGuard_Dropped(phase) == FALSE
\* The early return of fastsleep_loop.
FastsleepGuard(phase) == phase < SYSTEM_RUNNING

\* Faulty variant: the early return gives 0.
FastsleepAbortValue_Zero(index) == 0
\* What the early return gives.
FastsleepAbortValue(index) == index

\* Faulty variant: only MER is cleared before PECE0 is set.
FastsleepNewLpcr_MerOnly(old) == (old \ LPCR_MER) \cup LPCR_PECE0
\* The value written to LPCR before the halt.
FastsleepNewLpcr(old) == (old \ (LPCR_MER \cup LPCR_PECE)) \cup LPCR_PECE0

\* Faulty variant: the modified value is written back after the halt.
FastsleepRestoreValue_New(old, new) == new
\* The value written to LPCR after the halt.
FastsleepRestoreValue(old, new) == old

\* fastsleep_loop up to the halt: the early return, or the core is in
\* power7_sleep with the modified LPCR.
FastsleepEnter(c, index) ==
    /\ CanDispatch(c, index)
    /\ drv_states[index + 1].enter = "fastsleep_loop"
    /\ cpu' = [cpu EXCEPT ![c] =
          IF FastsleepGuard(system_state)
          THEN [Called(c, index) EXCEPT !.old_lpcr = cpu[c].lpcr,
                                        !.ret = FastsleepAbortValue(index),
                                        !.pc = "ret"]
          ELSE [Called(c, index) EXCEPT !.old_lpcr = cpu[c].lpcr,
                                        !.lpcr = FastsleepNewLpcr(cpu[c].lpcr),
                                        !.lpcr_writes = 1,
                                        !.halts = 1,
                                        !.pc = "fs_halt"]]
    /\ UNCHANGED << env_vars, startup_vars, sel_vars, system_state,
                    snooze_exit_time, hp_vars >>

\* A wake event ends power7_sleep; fastsleep_loop restores LPCR and returns.
FastsleepWake(c) ==
    /\ cpu[c].pc = "fs_halt"
    /\ cpu' = [cpu EXCEPT ![c].lpcr =
                             FastsleepRestoreValue(cpu[c].old_lpcr, cpu[c].lpcr),
                          ![c].lpcr_writes = cpu[c].lpcr_writes + 1,
                          ![c].ret = cpu[c].index,
                          ![c].pc = "ret"]
    /\ UNCHANGED << env_vars, startup_vars, sel_vars, system_state,
                    snooze_exit_time, hp_vars >>

\* The governor takes the returned index; the core leaves the idle loop.
GovernorReturn(c) ==
    /\ cpu[c].pc = "ret"
    /\ cpu' = [cpu EXCEPT ![c] =
          [CpuAtRest(cpu[c].lpcr) EXCEPT !.runlatch = cpu[c].runlatch,
                                         !.polling = cpu[c].polling,
                                         !.waker = cpu[c].waker,
                                         !.observed = ObservedAfter(c)]]
    /\ UNCHANGED << env_vars, startup_vars, sel_vars, system_state,
                    snooze_exit_time, hp_vars >>

\* Work becomes pending for core c.
SetNeedResched(c) ==
    /\ Registered
    /\ ~cpu[c].need_resched
    /\ cpu' = [cpu EXCEPT ![c].need_resched = TRUE]
    /\ UNCHANGED << env_vars, startup_vars, sel_vars, system_state,
                    snooze_exit_time, hp_vars >>

\* The kernel finishes booting.
SystemRunning ==
    /\ system_state = SYSTEM_BOOTING
    /\ system_state' = SYSTEM_RUNNING
    /\ UNCHANGED << env_vars, startup_vars, sel_vars, cpu, snooze_exit_time, hp_vars >>

ExecutorSteps ==
    \/ \E c \in Cores, index \in 0..(MAX_POWERNV_IDLE_STATES - 1) :
          \/ SnoozeEnter(c, index)
          \/ NapEnter(c, index)
          \/ FastsleepEnter(c, index)
    \/ \E c \in Cores :
          \/ SnoozePoll(c)
          \/ SnoozeSeeWork(c)
          \/ SnoozeExit(c)
          \/ NapWake(c)
          \/ FastsleepWake(c)
          \/ GovernorReturn(c)
          \/ SetNeedResched(c)

ExecutorNext ==
    \/ StartupNext
    \/ ExecutorSteps
    \/ SystemRunning

\* One flag word with both bits: snooze, Nap and FastSleep.
ThreeStateCap ==
    Cap(TRUE, TRUE, TRUE, << <<0, 3, 0, 0>> >>, << <<0, 0, 39, 16>> >>)

InitExecutor ==
    /\ StartupInit
    /\ tb_ticks_per_usec = 512
    /\ cpu_present = Cores
    /\ system_state = SYSTEM_BOOTING
    /\ \E v \in SUBSET LpcrBits : cpu = [c \in Cores |-> CpuAtRest(v)]
    /\ \/ RefusedEnv
       \/ /\ power_mgt \in DegenerateCaps \cup { ThreeStateCap }
          /\ cpuidle_disable = "IDLE_NO_OVERRIDE"
          /\ fw_opalv3 = TRUE
          /\ register_ret \in RegisterRets

SpecExecutor == InitExecutor /\ [][ExecutorNext]_vars

(***************************************************************************)
(* The polling loop and a remote waker.  A remote core that has work for   *)
(* core c first marks it pending (need_resched), then reads the polling    *)
(* mark of c and sends an explicit wake only if the mark is clear.         *)
(***************************************************************************)
\* The remote core marks work pending for core c.
WakerMark(c) ==
    /\ Registered
    /\ ~cpu[c].need_resched
    /\ cpu[c].waker # "marked"
    /\ cpu' = [cpu EXCEPT ![c].need_resched = TRUE,
                          ![c].waker = "marked",
                          ![c].observed = FALSE]
    /\ UNCHANGED << env_vars, startup_vars, sel_vars, system_state,
                    snooze_exit_time, hp_vars >>

\* The remote core reads the polling mark of core c: it skips the explicit
\* wake if the mark is set and sends it otherwise.
WakerDecide(c) ==
    /\ cpu[c].waker = "marked"
    /\ cpu' = [cpu EXCEPT ![c].waker =
                             IF cpu[c].polling THEN "skipped" ELSE "sent"]
    /\ UNCHANGED << env_vars, startup_vars, sel_vars, system_state,
                    snooze_exit_time, hp_vars >>

\* Later values of the timebase of a core.
TbLaterSet == { 100000, 6000000 }

\* Time passes on core c while it polls.
TbAdvance(c) ==
    /\ cpu[c].pc = "snooze_poll"
    /\ \E later \in TbLaterSet :
          /\ later > cpu[c].tb
          /\ cpu' = [cpu EXCEPT ![c].tb = later]
    /\ UNCHANGED << env_vars, startup_vars, sel_vars, system_state,
                    snooze_exit_time, hp_vars >>

SnoozeSteps ==
    \/ \E c \in Cores, index \in 0..(MAX_POWERNV_IDLE_STATES - 1) :
          \/ SnoozeEnter(c, index)
          \/ NapEnter(c, index)
    \/ \E c \in Cores :
          \/ SnoozePoll(c)
          \/ SnoozeSeeWork(c)
          \/ SnoozeExit(c)
          \/ NapWake(c)
          \/ GovernorReturn(c)
          \/ WakerMark(c)
          \/ WakerDecide(c)
          \/ TbAdvance(c)

SnoozeNext ==
    \/ StartupNext
    \/ SnoozeSteps

InitSnooze ==
    /\ StartupInit
    /\ tb_ticks_per_usec = 512
    /\ cpu_present = Cores
    /\ system_state = SYSTEM_BOOTING
    /\ cpu = [c \in Cores |-> CpuAtRest({ "MER", "PECE1", "ILE" })]
    /\ \/ RefusedEnv
       \/ /\ power_mgt \in { Cap(FALSE, FALSE, FALSE, << >>, << >>), ThreeStateCap }
          /\ cpuidle_disable = "IDLE_NO_OVERRIDE"
          /\ fw_opalv3 = TRUE
          /\ register_ret \in RegisterRets

\* A core inside snooze_loop keeps executing: the test of its loop and the
\* statements after the loop are taken when they stay possible.
SnoozeFairness ==
    \A c \in Cores : WF_vars(SnoozeSeeWork(c)) /\ WF_vars(SnoozeExit(c))

SpecSnooze == InitSnooze /\ [][SnoozeNext]_vars /\ SnoozeFairness

(***************************************************************************)
(* Hotplug: powernv_cpuidle_add_cpu_notifier, one call per hot cpu at a    *)
(* time.                                                                   *)
(***************************************************************************)
OnlineActions == { "CPU_ONLINE", "CPU_ONLINE_FROZEN" }
DeadActions == { "CPU_DEAD", "CPU_DEAD_FROZEN" }
\* The event ids delivered: the four the notifier handles and one it does not.
HotplugActions == OnlineActions \cup DeadActions \cup { "CPU_UP_PREPARE" }

\* cpuidle_pause_and_lock returns to the caller: the section is free and no
\* core is inside an entry routine.
cpuidle_pause_and_lock_returns ==
    /\ cpuidle_lock = {}
    /\ \A d \in Cores : cpu[d].pc = "none"

\* cpuidle_enable_device(dev) and cpuidle_disable_device(dev).
cpuidle_enable_device(c) == [dev_enabled EXCEPT ![c] = TRUE]
cpuidle_disable_device(c) == [dev_enabled EXCEPT ![c] = FALSE]

\* Faulty variant: the device record of the cpu running the notifier (cpu 0).
HpDevice_ThisCpu(hotcpu) == 0
\* dev = per_cpu(cpuidle_devices, hotcpu): the core whose device record the
\* call works on.
HpDevice(hotcpu) == hotcpu

\* if (dev && cpuidle_get_driver())
HpGuard(hotcpu) == HpDevice(hotcpu) \in cpuidle_devices /\ driver_registered

\* Faulty variant: the prepare event is taken as an online event.
HpCase_PrepareEnables(action) ==
    IF action \in OnlineActions \cup { "CPU_UP_PREPARE" } THEN "enable"
    ELSE IF action \in DeadActions THEN "disable"
    ELSE "default"
\* The switch on the event id.
HpCase(action) ==
    IF action \in OnlineActions THEN "enable"
    ELSE IF action \in DeadActions THEN "disable"
    ELSE "default"

\* Faulty variant: the device is enabled or disabled without taking the section.
HpFirstStep_NoLock(action) == "locked"
\* The first call of the two handled cases: cpuidle_pause_and_lock.
HpFirstStep(action) == "lock"

\* The notifier is called for core c with an event id; it returns at once
\* unless the event is handled.  The chain calls through
\* setup_hotplug_notifier.notifier_call: if the probe has overwritten the
\* block, the call jumps to a wild address and never returns.
HpNotify(c, action) ==
    /\ notifier_registered
    /\ hp[c].pc = "idle"
    /\ hp' = [hp EXCEPT ![c] =
          IF NotifierClobbered
          THEN [pc |-> "crashed", action |-> action, ret |-> "none",
                last |-> hp[c].last]
          ELSE IF HpGuard(c)
          THEN IF HpCase(action) # "default"
               THEN [pc |-> HpFirstStep(action), action |-> action, ret |-> "none",
                     last |-> action]
               ELSE [pc |-> "idle", action |-> action, ret |-> "NOTIFY_DONE",
                     last |-> hp[c].last]
          ELSE [pc |-> "idle", action |-> action, ret |-> "NOTIFY_OK",
                last |-> hp[c].last]]
    /\ UNCHANGED << env_vars, startup_vars, sel_vars, exec_vars,
                    cpuidle_devices, dev_enabled, cpuidle_lock >>

\* cpuidle_pause_and_lock()
HpPauseAndLock(c) ==
    /\ hp[c].pc = "lock"
    /\ cpuidle_pause_and_lock_returns
    /\ cpuidle_lock' = cpuidle_lock \cup { c }
    /\ hp' = [hp EXCEPT ![c].pc = "locked"]
    /\ UNCHANGED << env_vars, startup_vars, sel_vars, exec_vars,
                    cpuidle_devices, dev_enabled >>

\* cpuidle_enable_device(dev) or cpuidle_disable_device(dev)
HpMutate(c) ==
    /\ hp[c].pc = "locked"
    /\ dev_enabled' = IF HpCase(hp[c].action) = "enable"
                      THEN cpuidle_enable_device(HpDevice(c))
                      ELSE cpuidle_disable_device(HpDevice(c))
    /\ hp' = [hp EXCEPT ![c].pc = "mutated"]
    /\ UNCHANGED << env_vars, startup_vars, sel_vars, exec_vars,
                    cpuidle_devices, cpuidle_lock >>

\* cpuidle_resume_and_unlock(), then return NOTIFY_OK
HpResumeAndUnlock(c) ==
    /\ hp[c].pc = "mutated"
    /\ cpuidle_lock' = cpuidle_lock \ { c }
    /\ hp' = [hp EXCEPT ![c].pc = "idle", ![c].ret = "NOTIFY_OK"]
    /\ UNCHANGED << env_vars, startup_vars, sel_vars, exec_vars,
                    cpuidle_devices, dev_enabled >>

\* cpuidle_unregister_driver(&powernv_idle_driver), called from outside this
\* file: cpuidle_get_driver() gives NULL from then on.
CpuidleUnregisterDriver ==
    /\ init_pc = "done"
    /\ driver_registered
    /\ \A d \in Cores : cpu[d].pc = "none"
    /\ driver_registered' = FALSE
    /\ UNCHANGED << init_pc, retval, nr_idle_states, dt_i, lat_oob_read,
                    powernv_states, spill, cpuidle_state_table, max_idle_state,
                    default_snooze_timeout, snooze_timeout_en, drv_states,
                    state_count, notifier_registered, drv_cpumask >>
    /\ UNCHANGED << env_vars, runtime_vars >>

HotplugSteps ==
    \/ \E c \in Cores, action \in HotplugActions : HpNotify(c, action)
    \/ \E c \in Cores :
          \/ HpPauseAndLock(c)
          \/ HpMutate(c)
          \/ HpResumeAndUnlock(c)
    \/ CpuidleUnregisterDriver

HotplugNext ==
    \/ StartupNext
    \/ ExecutorSteps
    \/ HotplugSteps

InitHotplug ==
    /\ StartupInit
    /\ tb_ticks_per_usec = 512
    /\ cpu_present \in { Cores, { 0 } }
    /\ system_state = SYSTEM_RUNNING
    /\ cpu = [c \in Cores |-> CpuAtRest({ "MER", "PECE1", "ILE" })]
    /\ \/ RefusedEnv
       \/ /\ power_mgt = ThreeStateCap
          /\ cpuidle_disable = "IDLE_NO_OVERRIDE"
          /\ fw_opalv3 = TRUE
          /\ register_ret \in RegisterRets

SpecHotplug == InitHotplug /\ [][HotplugNext]_vars

(***************************************************************************)
(* Properties of the startup path, checked under SpecProbe.                *)
(***************************************************************************)
\* powernv_cpuidle_driver_init has run.
TableBuilt ==
    \/ init_pc \in { "register", "notifier", "done" }
    \/ init_pc = "failed" /\ max_idle_state > 0

ProbeAccepted == cpuidle_disable = "IDLE_NO_OVERRIDE" /\ fw_opalv3

Degenerate == ~power_mgt.node \/ ~power_mgt.has_flags \/ ~power_mgt.has_lat
BothArrays == power_mgt.node /\ power_mgt.has_flags /\ power_mgt.has_lat
WellFormed == BothArrays /\ Len(power_mgt.flags) = Len(power_mgt.lat)

\* Bit k of a cell's value.
CellBit(cell, k) == (be32_to_cpu(cell) \div (2 ^ k)) % 2

\* The number of recognized capability bits over all flag words.
RECURSIVE RecognizedBits(_)
RecognizedBits(fs) ==
    IF fs = << >> THEN 0
    ELSE CellBit(Head(fs), 16) + CellBit(Head(fs), 17) + RecognizedBits(Tail(fs))

FitsTable == 1 + RecognizedBits(power_mgt.flags) <= MAX_POWERNV_IDLE_STATES

\* C1: no descriptor is ever written at a table index >= 8 and the state
\* count never exceeds 8, whatever the capability input.
C1_NoOverflow ==
    /\ spill = << >>
    /\ nr_idle_states <= MAX_POWERNV_IDLE_STATES
    /\ state_count <= MAX_POWERNV_IDLE_STATES

\* C5: with the node or one of its two properties missing, the probe does
\* not fail and the driver's table holds the snooze state alone, although
\* the static table has entry routines at positions 1 and 2.
C5_DegeneratePollingOnly ==
    (Degenerate /\ ProbeAccepted) =>
        /\ init_pc = "failed" => (register_ret # 0 /\ max_idle_state = 1)
        /\ TableBuilt =>
             /\ state_count = 1
             /\ drv_states = << StaticStates[0] >>
             /\ powernv_states[1].enter # "NULL"
             /\ powernv_states[2].enter # "NULL"

C5_Witness ==
    /\ Degenerate
    /\ init_pc = "done"
    /\ retval = 0
    /\ state_count = 1
    /\ powernv_states[1].enter = "nap_loop"

\* C6: arrays of different lengths give the snooze-only table, and no
\* latency cell past the end of the latency property is read.
C6_MismatchPollingOnly ==
    (BothArrays /\ Len(power_mgt.flags) # Len(power_mgt.lat)) =>
        /\ ~lat_oob_read
        /\ TableBuilt => state_count = 1

\* C7: for a well-formed input whose states fit the table, the driver's
\* state_count is 1 plus the number of recognized bits over all flag words.
C7_StateCount ==
    (WellFormed /\ FitsTable /\ TableBuilt) =>
        state_count = 1 + RecognizedBits(power_mgt.flags)

C7_Witness ==
    /\ WellFormed
    /\ init_pc = "done"
    /\ \E k \in 1..Len(power_mgt.flags) :
          CellBit(power_mgt.flags[k], 16) + CellBit(power_mgt.flags[k], 17) = 2
    /\ \E k \in 1..Len(power_mgt.flags) :
          CellBit(power_mgt.flags[k], 16) + CellBit(power_mgt.flags[k], 17) = 0
    /\ state_count = 1 + RecognizedBits(power_mgt.flags)
    /\ state_count >= 5

\* C8: for a well-formed input the driver's table starts with the snooze
\* state and its exit latencies never decrease from one index to the next.
C8_NonDecreasingLatency ==
    (WellFormed /\ FitsTable /\ TableBuilt) =>
        /\ drv_states[1].enter = "snooze_loop"
        /\ \A k \in 1..(state_count - 1) :
              drv_states[k].exit_latency <= drv_states[k + 1].exit_latency

\* What the claim expects one flag word to append: for each recognized bit,
\* nap before sleep, the routine, the two times in microseconds and whether
\* the timer stops.
ExpectedOfWord(cell, ns) ==
    (IF CellBit(cell, 16) = 1
     THEN << [enter |-> "nap_loop", el |-> ns \div 1000, tr |-> ns \div 100,
              timer_stop |-> FALSE] >>
     ELSE << >>) \o
    (IF CellBit(cell, 17) = 1
     THEN << [enter |-> "fastsleep_loop", el |-> ns \div 1000, tr |-> ns \div 100,
              timer_stop |-> TRUE] >>
     ELSE << >>)

\* The same over the first n words of the two arrays.
RECURSIVE ExpectedAppended(_)
ExpectedAppended(n) ==
    IF n = 0 THEN << >>
    ELSE ExpectedAppended(n - 1) \o
         ExpectedOfWord(power_mgt.flags[n], be32_to_cpu(power_mgt.lat[n]))

\* Descriptor d is what e expects.
MatchesExpected(d, e) ==
    /\ d.enter = e.enter
    /\ d.exit_latency = e.el
    /\ d.target_residency = e.tr
    /\ ("TIMER_STOP" \in d.flags) = e.timer_stop

\* flags=[0x00010000], latency_ns=[10000]
ExampleCap == Cap(TRUE, TRUE, TRUE, << <<0, 1, 0, 0>> >>, << <<0, 0, 39, 16>> >>)

\* C13: for arrays of equal length, every descriptor the loop has written
\* into the table for the words processed so far has exit latency ns / 1000,
\* target residency ns / 100 and the routine of its bit (the sleep state with
\* the timer-stop flag), nap before sleep for a word with both bits; when the
\* states fit the table the driver's table is snooze followed by exactly
\* these; the input flags=[0x00010000], latency_ns=[10000] gives two states,
\* snooze and a nap state with exit latency 10 and target residency 100.
C13_DescriptorValues ==
    /\ WellFormed =>
          LET sofar == ExpectedAppended(dt_i)
          IN /\ nr_idle_states = 1 + Len(sofar)
             /\ \A k \in 1..(nr_idle_states - 1) :
                   k < MAX_POWERNV_IDLE_STATES
                   => MatchesExpected(powernv_states[k], sofar[k])
    /\ (WellFormed /\ FitsTable /\ TableBuilt) =>
          LET all == ExpectedAppended(Len(power_mgt.flags))
          IN /\ state_count = 1 + Len(all)
             /\ drv_states[1].enter = "snooze_loop"
             /\ \A k \in 2..state_count : MatchesExpected(drv_states[k], all[k - 1])
    /\ (power_mgt = ExampleCap /\ TableBuilt) =>
          /\ state_count = 2
          /\ drv_states[1].enter = "snooze_loop"
          /\ drv_states[2].enter = "nap_loop"
          /\ drv_states[2].exit_latency = 10
          /\ drv_states[2].target_residency = 100

\* A word with both bits and a latency of 20500 ns gave a nap state and a
\* sleep state, in this order, each with exit latency 20 and residency 205.
C13_Witness ==
    /\ WellFormed
    /\ init_pc = "done"
    /\ \E k \in 2..(state_count - 1) :
          /\ drv_states[k].enter = "nap_loop"
          /\ drv_states[k + 1].enter = "fastsleep_loop"
          /\ drv_states[k].exit_latency = 20
          /\ drv_states[k + 1].exit_latency = 20
          /\ drv_states[k].target_residency = 205
          /\ drv_states[k + 1].target_residency = 205
          /\ "TIMER_STOP" \in drv_states[k + 1].flags
          /\ "TIMER_STOP" \notin drv_states[k].flags

(***************************************************************************)
(* Properties of the selector, checked under SpecSelector.                 *)
(***************************************************************************)
\* The positions after index whose state is enabled for the device.
EnabledLater(dev, index) ==
    { k \in (index + 1)..(state_count - 1) :
        ~state_disabled[k + 1] /\ ~usage_disable[dev][k + 1] }

NearestEnabledLater(dev, index) ==
    CHOOSE k \in EnabledLater(dev, index) :
        \A j \in EnabledLater(dev, index) : k <= j

\* A call of get_snooze_timeout returns in this step, no enable flag having
\* been written while it ran.
QuietReturn ==
    /\ timeout_call' # timeout_call
    /\ timeout_call'.pc = "idle"
    /\ ~timeout_call'.dirty

\* C4, as amended: every call of get_snooze_timeout during which the enable
\* flags do not change returns the target residency of the nearest enabled
\* later state converted to timebase ticks (multiplied by
\* tb_ticks_per_usec), or the default timeout if no later state is enabled.
C4_TimeoutInTicks ==
    [][QuietReturn =>
        LET dev == timeout_call'.dev
            index == timeout_call'.index
        IN timeout_call'.result =
             IF EnabledLater(dev, index) = {} THEN default_snooze_timeout
             ELSE drv_states[NearestEnabledLater(dev, index) + 1].target_residency
                     * tb_ticks_per_usec]_vars

\* A call skipped a disabled state and returned a later state's residency.
C4_Witness ==
    /\ timeout_call.index = 0
    /\ timeout_call.pc = "idle"
    /\ ~timeout_call.dirty
    /\ state_count = 3
    /\ state_disabled[2] \/ usage_disable[timeout_call.dev][2]
    /\ ~state_disabled[3] /\ ~usage_disable[timeout_call.dev][3]
    /\ drv_states[2].target_residency # drv_states[3].target_residency
    /\ timeout_call.result = drv_states[3].target_residency * tb_ticks_per_usec

\* C4, as stated: every call of get_snooze_timeout under an assignment of
\* the enable flags returns the target_residency (in microseconds) of the
\* nearest enabled later state, or the default timeout if no later state is
\* enabled.
C4_TimeoutIsResidency ==
    [][QuietReturn =>
        LET dev == timeout_call'.dev
            index == timeout_call'.index
        IN timeout_call'.result =
             IF EnabledLater(dev, index) = {} THEN default_snooze_timeout
             ELSE drv_states[NearestEnabledLater(dev, index) + 1].target_residency]_vars

(***************************************************************************)
(* Properties of the entry routines, checked under SpecExecutor.           *)
(***************************************************************************)
\* Core c is inside, or has just returned from, the named entry routine.
InRoutine(c, routine) ==
    /\ cpu[c].pc # "none"
    /\ drv_states[cpu[c].index + 1].enter = routine

\* C2: when fastsleep_loop is called in the running phase, LPCR after it
\* returns equals LPCR at the call, whatever the starting value.
C2_LpcrRoundTrip ==
    \A c \in Cores :
        (/\ InRoutine(c, "fastsleep_loop")
         /\ cpu[c].call_phase >= SYSTEM_RUNNING
         /\ cpu[c].pc = "ret")
        => cpu[c].lpcr = cpu[c].lpcr_entry

\* fastsleep_loop slept with a modified LPCR and has returned.
C2_Witness ==
    \E c \in Cores :
        /\ InRoutine(c, "fastsleep_loop")
        /\ cpu[c].pc = "ret"
        /\ cpu[c].halts = 1
        /\ cpu[c].lpcr_writes = 2
        /\ FastsleepNewLpcr(cpu[c].lpcr_entry) # cpu[c].lpcr_entry
        /\ cpu[c].lpcr = cpu[c].lpcr_entry

\* C3: power7_sleep never runs while the phase is below running, and a call
\* of fastsleep_loop below running writes LPCR not at all, does not halt and
\* returns the index it was given.
C3_NoSleepBeforeRunning ==
    \A c \in Cores :
        /\ cpu[c].pc = "fs_halt" => system_state >= SYSTEM_RUNNING
        /\ (InRoutine(c, "fastsleep_loop") /\ cpu[c].call_phase < SYSTEM_RUNNING)
           => /\ cpu[c].pc = "ret"
              /\ cpu[c].lpcr_writes = 0
              /\ cpu[c].halts = 0
              /\ cpu[c].lpcr = cpu[c].lpcr_entry
              /\ cpu[c].ret = cpu[c].index

\* fastsleep_loop was called while booting and has returned.
C3_Witness ==
    \E c \in Cores :
        /\ InRoutine(c, "fastsleep_loop")
        /\ cpu[c].call_phase = SYSTEM_BOOTING
        /\ cpu[c].pc = "ret"
        /\ cpu[c].index = 2
        /\ cpu[c].ret = 2

\* C9: whenever an entry routine has returned, it has returned the index it
\* was called with.
C9_ReturnsIndex ==
    \A c \in Cores : cpu[c].pc = "ret" => cpu[c].ret = cpu[c].index

\* Two routines have returned: the early return of fastsleep_loop on one
\* core, nap_loop on the other.
C9_Witness ==
    \E c, d \in Cores :
        /\ cpu[c].pc = "ret" /\ InRoutine(c, "fastsleep_loop")
        /\ cpu[c].halts = 0 /\ cpu[c].ret = 2
        /\ cpu[d].pc = "ret" /\ InRoutine(d, "nap_loop") /\ cpu[d].ret = 1

\* C14: while a core is in power7_sleep inside fastsleep_loop, LPCR has MER
\* and the decrementer wake bit PECE1 clear and the external-interrupt wake
\* bit PECE0 set, and agrees with the snapshot on every bit outside MER and
\* the PECE field; LPCR has then been written once, and twice when a call
\* that got past the guard has returned.
C14_LpcrAtHalt ==
    \A c \in Cores :
        /\ cpu[c].pc = "fs_halt" =>
              /\ "MER" \notin cpu[c].lpcr
              /\ "PECE1" \notin cpu[c].lpcr
              /\ "PECE0" \in cpu[c].lpcr
              /\ cpu[c].lpcr \ { "MER", "PECE0", "PECE1", "PECE2" }
                    = cpu[c].old_lpcr \ { "MER", "PECE0", "PECE1", "PECE2" }
              /\ cpu[c].old_lpcr = cpu[c].lpcr_entry
              /\ cpu[c].lpcr_writes = 1
              /\ cpu[c].halts = 1
        /\ (/\ cpu[c].pc = "ret"
            /\ InRoutine(c, "fastsleep_loop")
            /\ cpu[c].call_phase >= SYSTEM_RUNNING)
           => cpu[c].lpcr_writes = 2 /\ cpu[c].halts = 1

\* A core sleeps; its LPCR had MER, PECE1 and ILE set and PECE0 clear.
C14_Witness ==
    \E c \in Cores :
        /\ cpu[c].pc = "fs_halt"
        /\ cpu[c].old_lpcr = { "MER", "PECE1", "ILE" }
        /\ cpu[c].lpcr = { "PECE0", "ILE" }
        /\ cpu[c].lpcr_writes = 1

\* C17: while a core is halted in nap_loop its runlatch is off; when nap_loop
\* has returned the runlatch is on again, and it is on whenever the core is
\* outside the entry routines; nap_loop never writes LPCR, which holds its
\* value of the call both during the halt and after the return.
C17_NapRunlatchAndFrame ==
    \A c \in Cores :
        /\ cpu[c].pc = "nap_halt" =>
              /\ ~cpu[c].runlatch
              /\ cpu[c].lpcr = cpu[c].lpcr_entry
              /\ cpu[c].lpcr_writes = 0
        /\ (cpu[c].pc = "ret" /\ InRoutine(c, "nap_loop")) =>
              /\ cpu[c].runlatch
              /\ cpu[c].lpcr = cpu[c].lpcr_entry
              /\ cpu[c].lpcr_writes = 0
        /\ cpu[c].pc = "none" => cpu[c].runlatch

\* One core is halted in nap_loop with the runlatch off while the other has
\* returned from nap_loop with the runlatch on and LPCR as it was.
C17_Witness ==
    \E c \in Cores : \E d \in Cores \ { c } :
        /\ cpu[c].pc = "nap_halt" /\ ~cpu[c].runlatch
        /\ cpu[d].pc = "ret" /\ InRoutine(d, "nap_loop")
        /\ cpu[d].runlatch
        /\ cpu[d].lpcr = { "MER", "PECE1" }
        /\ cpu[d].lpcr_entry = { "MER", "PECE1" }

(***************************************************************************)
(* Properties of the hotplug notifier, checked under SpecHotplug.          *)
(***************************************************************************)
\* The notifier call for core c was for a handled event and got past its
\* test of the device record and the driver.
HpHandled(c) ==
    /\ hp[c].action \in OnlineActions \cup DeadActions
    /\ hp[c].ret # "none" => hp[c].ret = "NOTIFY_OK"
    /\ c \in cpuidle_devices
    /\ driver_registered

\* C10: with a device record and a registered driver, an online event leaves
\* the core enabled and a dead event leaves it disabled; the flag changes
\* only while the notifier call holds the section, with no core inside an
\* entry routine; the section is released when the call has returned.
C10_MutationInsideSection ==
    /\ [](\A c \in Cores :
            /\ hp[c].pc \in { "idle", "lock" } => c \notin cpuidle_lock
            /\ (HpHandled(c) /\ hp[c].pc \in { "mutated", "idle" })
               => dev_enabled[c] = (hp[c].action \in OnlineActions))
    /\ [][\A c \in Cores :
            (Registered /\ dev_enabled'[c] # dev_enabled[c])
            => /\ cpuidle_lock = { c }
               /\ cpuidle_lock' = { c }
               /\ \A d \in Cores : cpu[d].pc = "none" /\ cpu'[d].pc = "none"
               /\ hp[c].pc = "locked"
               /\ dev_enabled'[c] = (hp[c].action \in OnlineActions)]_vars

\* A dead event has disabled a core inside the section while the notifier
\* call for the other core, an online event, waits for the section.
C10_Witness ==
    \E c \in Cores :
        /\ hp[c].pc = "mutated"
        /\ hp[c].action = "CPU_DEAD"
        /\ cpuidle_lock = { c }
        /\ ~dev_enabled[c]
        /\ \E d \in Cores \ { c } : hp[d].pc = "lock" /\ hp[d].action = "CPU_ONLINE"

\* The enable flag the last handled event delivered for core c asks for;
\* with no such event, the flag registration gave the core.
LastEventEffect(c) ==
    IF hp[c].last = "none" THEN c \in cpuidle_devices
    ELSE hp[c].last \in OnlineActions

\* C11: once the notifier calls for a core have returned, its enable flag is
\* the effect of the last online or dead event delivered for that core; a
\* step that changes the flag of a core is a step of a notifier call for
\* that core and changes no other core's flag; a core whose flag is off is in
\* no entry routine, and its flag comes on again only by an online event for
\* that core.
C11_PerCoreLastEvent ==
    /\ [](\A c \in Cores :
            /\ (Registered /\ hp[c].pc = "idle")
               => dev_enabled[c] = LastEventEffect(c)
            /\ ~dev_enabled[c] => cpu[c].pc = "none")
    /\ [][\A c \in Cores :
            (Registered /\ dev_enabled'[c] # dev_enabled[c])
            => /\ hp[c].pc = "locked" /\ hp'[c].pc = "mutated"
               /\ \A d \in Cores \ { c } :
                     hp'[d] = hp[d] /\ dev_enabled'[d] = dev_enabled[d]
               /\ dev_enabled'[c] => hp[c].action \in OnlineActions]_vars

\* Core c was disabled by a dead event and stays out of dispatch while the
\* other core, taken through a dead and then an online event, is inside an
\* entry routine again.
C11_Witness ==
    \E c \in Cores : \E d \in Cores \ { c } :
        /\ hp[c].pc = "idle" /\ hp[c].last = "CPU_DEAD" /\ ~dev_enabled[c]
        /\ hp[d].pc = "idle" /\ hp[d].last = "CPU_ONLINE_FROZEN"
        /\ hp[d].action = "CPU_UP_PREPARE"
        /\ dev_enabled[d]
        /\ cpu[d].pc = "nap_halt"
        /\ cpu[c].pc = "none"

\* C12: a notifier call with an event id that is neither online nor dead, or
\* for a core without a device record, or with no driver registered, returns
\* at once with NOTIFY_DONE or NOTIFY_OK (never an error), does not take the
\* section and changes no core's enable flag.
C12_NoOpEvents ==
    [][\A c \in Cores :
         (/\ hp[c].pc = "idle"
          /\ hp'[c] # hp[c]
          /\ \/ hp'[c].action \notin OnlineActions \cup DeadActions
             \/ c \notin cpuidle_devices
             \/ ~driver_registered)
         => /\ hp'[c].pc = "idle"
            /\ hp'[c].ret \in { "NOTIFY_DONE", "NOTIFY_OK" }
            /\ hp'[c].last = hp[c].last
            /\ cpuidle_lock' = cpuidle_lock
            /\ dev_enabled' = dev_enabled]_vars

\* A prepare event was acknowledged for an enabled core, and a dead event
\* delivered for the other core after the driver was unregistered left that
\* core enabled.
C12_Witness ==
    \E c \in Cores : \E d \in Cores \ { c } :
        /\ hp[c].pc = "idle" /\ hp[c].action = "CPU_UP_PREPARE"
        /\ hp[c].ret = "NOTIFY_DONE" /\ dev_enabled[c]
        /\ ~driver_registered
        /\ hp[d].pc = "idle" /\ hp[d].action = "CPU_DEAD"
        /\ hp[d].ret = "NOTIFY_OK" /\ hp[d].last = "none"
        /\ d \in cpuidle_devices /\ dev_enabled[d]
        /\ cpuidle_lock = {}

\* A dead event delivered for a core without a device record.
C12_NoDeviceReached ==
    \E c \in Cores :
        /\ c \notin cpuidle_devices /\ driver_registered
        /\ hp[c].pc = "idle" /\ hp[c].action = "CPU_DEAD" /\ hp[c].ret = "NOTIFY_OK"

(***************************************************************************)
(* Properties of the polling loop, checked under SpecSnooze.               *)
(***************************************************************************)
InSnoozeLoop(c) == cpu[c].pc \in { "snooze_poll", "snooze_out" }

\* C15: the polling mark of a core is set exactly while the core is between
\* the entry of snooze_loop and the statements after its loop, so it is set
\* at every test of need_resched and clear when the routine has returned;
\* when the remote core has skipped the explicit wake, the polling core has
\* seen the pending work or is in its loop with the work still pending, its
\* next move is to leave the loop, and it does leave it.
C15_NoLostWakeup ==
    /\ [](\A c \in Cores :
            /\ cpu[c].polling = InSnoozeLoop(c)
            /\ (cpu[c].waker = "skipped" /\ ~cpu[c].observed)
               => (cpu[c].pc = "snooze_poll" /\ cpu[c].need_resched))
    /\ [][\A c \in Cores :
            (/\ cpu[c].waker = "skipped" /\ ~cpu[c].observed
             /\ cpu'[c].pc # cpu[c].pc)
            => (cpu'[c].pc = "snooze_out" /\ cpu'[c].observed)]_vars
    /\ \A c \in Cores :
          (cpu[c].waker = "skipped" /\ ~cpu[c].observed)
          ~> (cpu[c].observed /\ cpu[c].pc # "snooze_poll")

\* The remote core marked work while the core was polling and skipped the
\* explicit wake; the core has polled and has not yet seen the work.
C15_Witness ==
    \E c \in Cores :
        /\ cpu[c].waker = "skipped"
        /\ ~cpu[c].observed
        /\ cpu[c].pc = "snooze_poll"
        /\ cpu[c].spins > 0
        /\ cpu[c].polling
        /\ cpu[c].need_resched

\* C16: the polling loop is left only with need_resched set, also when the
\* timebase has passed the computed deadline; an iteration of the loop body
\* is run only after a test that found need_resched clear; need_resched is
\* still set when snooze_loop has returned; and a core polling with
\* need_resched set does return.
C16_TimeoutAdvisory ==
    /\ [](\A c \in Cores :
            (cpu[c].pc = "snooze_out" \/
             (cpu[c].pc = "ret" /\ InRoutine(c, "snooze_loop")))
            => cpu[c].need_resched)
    /\ [][\A c \in Cores :
            /\ (cpu[c].pc = "snooze_poll" /\ cpu'[c].pc # "snooze_poll")
               => cpu[c].need_resched
            /\ (cpu[c].pc = "snooze_poll" /\ cpu'[c].spins > cpu[c].spins)
               => (~cpu[c].need_resched /\ cpu'[c].pc = "snooze_poll")]_vars
    /\ \A c \in Cores :
          (cpu[c].pc = "snooze_poll" /\ cpu[c].need_resched)
          ~> (cpu[c].pc = "ret" /\ cpu[c].ret = cpu[c].index)

\* A core is still polling, with no work pending, after its timebase has
\* passed the deadline it computed from the residency of the nap state.
C16_Witness ==
    \E c \in Cores :
        /\ cpu[c].pc = "snooze_poll"
        /\ state_count = 3
        /\ cpu[c].deadline = 40000 + drv_states[2].target_residency * tb_ticks_per_usec
        /\ cpu[c].tb > cpu[c].deadline
        /\ cpu[c].spins = MaxSpins
        /\ ~cpu[c].need_resched

(***************************************************************************)
(* The table after startup, checked under SpecHotplug: the entry routines  *)
(* (snooze_loop calls get_snooze_timeout) and the hotplug notifier.        *)
(***************************************************************************)
\* C18: once powernv_cpuidle_driver_init has run, no step changes the
\* driver's descriptors, state_count or the static table; once the driver
\* is registered, no step changes a per-state disable flag, and a step that changes
\* the enable flag of a core is the enable or disable step of a notifier
\* call for that core.
C18_TableImmutable ==
    [][/\ TableBuilt =>
            /\ drv_states' = drv_states
            /\ state_count' = state_count
            /\ powernv_states' = powernv_states
            /\ spill' = spill
            /\ max_idle_state' = max_idle_state
       /\ Registered =>
            /\ state_disabled' = state_disabled
            /\ usage_disable' = usage_disable
            /\ \A c \in Cores :
                  dev_enabled'[c] # dev_enabled[c]
                  => (hp[c].pc = "locked" /\ hp'[c].pc = "mutated")]_vars

\* After a dead event has disabled one core and while the other core polls
\* in snooze_loop, having called get_snooze_timeout, the table is the one
\* startup built.
C18_Witness ==
    \E c \in Cores : \E d \in Cores \ { c } :
        /\ init_pc = "done"
        /\ cpu[c].pc = "snooze_poll"
        /\ cpu[c].deadline = 40000 + 100 * tb_ticks_per_usec
        /\ hp[d].pc = "idle" /\ hp[d].last = "CPU_DEAD" /\ ~dev_enabled[d]
        /\ state_count = 3
        /\ drv_states[2].enter = "nap_loop"
        /\ drv_states[2].target_residency = 100
        /\ drv_states[3].enter = "fastsleep_loop"
        /\ drv_states[3].exit_latency = 10

\* The order of the positions of powernv_processor_idle_init.
InitRank(pc) ==
    CASE pc = "probe" -> 0
      [] pc = "add_loop" -> 1
      [] pc = "probe_ret" -> 2
      [] pc = "driver_init" -> 3
      [] pc = "register" -> 4
      [] pc = "notifier" -> 5
      [] OTHER -> 6

\* C19: startup moves forward only; the driver's table is written by
\* powernv_cpuidle_driver_init alone, after the probe, and the driver is
\* registered after that; the notifier is registered only after
\* cpuidle_register has returned 0, with the driver registered.  When the
\* probe is refused no table is built; when the probe is refused or
\* registration fails, initialization returns that error, neither the
\* driver nor the notifier is registered, no notifier call is ever made, and
\* every core's enable flag stays as it was.
C19_OrderedFailClosed ==
    /\ [](
           /\ init_pc = "failed" =>
                /\ retval # 0
                /\ retval = IF ProbeAccepted THEN register_ret ELSE -ENODEV
                /\ ~notifier_registered
                /\ ~driver_registered
                /\ \A c \in Cores : ~dev_enabled[c] /\ cpu[c].pc = "none"
           /\ init_pc = "done" => (retval = 0 /\ ProbeAccepted /\ register_ret = 0)
           /\ ~ProbeAccepted =>
                (init_pc \in { "probe", "failed" } /\ state_count = 0
                 /\ cpuidle_state_table = "NULL")
           /\ (ProbeAccepted /\ register_ret # 0) => ~Registered
           /\ notifier_registered => (init_pc = "done" /\ retval = 0)
           /\ driver_registered => (TableBuilt /\ Registered)
           /\ ~notifier_registered => \A c \in Cores : hp[c] = HpIdle("none")
           /\ ~Registered =>
                \A c \in Cores : ~dev_enabled[c] /\ cpu[c].pc = "none")
    /\ [][/\ init_pc' # init_pc => InitRank(init_pc') > InitRank(init_pc)
          /\ (drv_states' # drv_states \/ state_count' # state_count)
             => (init_pc = "driver_init" /\ init_pc' = "register")
          /\ max_idle_state' # max_idle_state => init_pc = "probe_ret"
          /\ driver_registered' # driver_registered =>
                \/ init_pc = "register" /\ driver_registered'
                \/ init_pc = "done" /\ ~driver_registered'
          /\ notifier_registered' # notifier_registered =>
                (init_pc = "notifier" /\ driver_registered /\ notifier_registered')
         ]_vars

\* Registration failed after the three-state table had been built: the
\* error is returned and neither the driver nor the notifier is registered.
C19_Witness ==
    /\ init_pc = "failed"
    /\ ProbeAccepted
    /\ register_ret = -16
    /\ state_count = 3
    /\ retval = -16
    /\ ~notifier_registered
    /\ \A c \in Cores : ~dev_enabled[c] /\ hp[c] = HpIdle("none")

\* The probe was refused: the error is returned with no table built.
C19_RefusedReached ==
    /\ init_pc = "failed"
    /\ ~ProbeAccepted
    /\ retval = -ENODEV
    /\ state_count = 0

====
